---- MODULE Spec2Model ----
(***************************************************************************)
(* Model of the vibe-shopping agent: the conversation controller           *)
(* (src/src/vibe_shopping_agent.py, VibeShoppingAgent) and the             *)
(* recommendation engine (src/src/find_recommendations.py,                 *)
(* EmbeddingBasedMatcher and OutfitRecommendationAgent).                   *)
(*                                                                         *)
(* Representation.                                                         *)
(*  - An attribute value (a Python str the code parses or tests for        *)
(*    emptiness) is a sequence of one-character strings, so that           *)
(*    float(str) is computed from the characters and "" is <<>>. Texts     *)
(*    the code only passes on (user input, follow-up, names) are strings.  *)
(*  - Confidences, similarities and min_score are in tenths (0.7 is 7).    *)
(*    Attribute weights are in tenths too (1.5 is 15).                     *)
(*  - A dict is a function on its key set; {} is the empty function.       *)
(*  - A value of the attribute dict is [islist, items]; an item of a list  *)
(*    is [isdict, has_value, value, has_conf, confidence], which covers    *)
(*    the isinstance() and .get() branches of the code.                    *)
(*  - The three LLM / embedding calls are external: their results are      *)
(*    inputs of the actions, drawn from the pools below.                   *)
(***************************************************************************)
EXTENDS Integers, Sequences, FiniteSets, TLC

VARIABLES
    conversation,     \* self.conversation: list of {role, content}
    attributes,       \* self.attributes: the committed attribute dict
    follow_up_count,  \* self.follow_up_count
    catalog,          \* self.recommendation_agent.catalog (read-only after load)
    extracted,        \* what the last turn's extractor call returned (raw), or NoExtract
    found,            \* outcome of the last find_recommendations call, or NoCall
    lastOp            \* name of the operation that produced this state

vars == <<conversation, attributes, follow_up_count, catalog, extracted, found, lastOp>>

(***************************************************************************)
(* Program constants.                                                      *)
(***************************************************************************)
CONFIDENCE_THRESHOLD == 7
max_follow_ups == 2
default_min_score == 3
default_max_results == 10
top_k == 3

\* Bound of the model: user turns per conversation (between two resets).
MaxTurns == 3

(***************************************************************************)
(* Strings and float(str).                                                 *)
(***************************************************************************)
Digits == {"0", "1", "2", "3", "4", "5", "6", "7", "8", "9"}

DigitVal(c) ==
    CASE c = "0" -> 0 [] c = "1" -> 1 [] c = "2" -> 2 [] c = "3" -> 3
      [] c = "4" -> 4 [] c = "5" -> 5 [] c = "6" -> 6 [] c = "7" -> 7
      [] c = "8" -> 8 [] c = "9" -> 9

RECURSIVE LStrip(_)
LStrip(s) == IF s # <<>> /\ Head(s) = " " THEN LStrip(Tail(s)) ELSE s

RECURSIVE RStrip(_)
RStrip(s) ==
    IF s # <<>> /\ s[Len(s)] = " " THEN RStrip(SubSeq(s, 1, Len(s) - 1)) ELSE s

RECURSIVE DigitsVal(_)
DigitsVal(s) ==
    IF s = <<>> THEN 0
    ELSE 10 * DigitsVal(SubSeq(s, 1, Len(s) - 1)) + DigitVal(s[Len(s)])

\* Python float(s) on the strings of the model's alphabet (digits, sign,
\* blank, "$", letters; no ".", exponent, "inf", "nan" or "_"): surrounding
\* blanks are stripped, one sign is allowed, the rest must be digits.
\* ok = FALSE stands for the ValueError.
float(s) ==
    LET t == RStrip(LStrip(s))
        signed == t # <<>> /\ Head(t) \in {"+", "-"}
        u == IF signed THEN Tail(t) ELSE t
        isnum == u # <<>> /\ \A i \in 1..Len(u) : u[i] \in Digits
    IN  IF isnum
        THEN [ok |-> TRUE,
              num |-> IF signed /\ Head(t) = "-" THEN 0 - DigitsVal(u) ELSE DigitsVal(u)]
        ELSE [ok |-> FALSE, num |-> 0]

(***************************************************************************)
(* Data shapes.                                                            *)
(***************************************************************************)
EmptyDict == [k \in {} |-> 0]

None == [some |-> FALSE, num |-> 0]
Some(n) == [some |-> TRUE, num |-> n]

\* {"value": v, "confidence": c}
Item(v, c) == [isdict |-> TRUE, has_value |-> TRUE, value |-> v,
               has_conf |-> TRUE, confidence |-> c]
\* a list element that is not a dict
NonDictItem == [isdict |-> FALSE, has_value |-> FALSE, value |-> <<>>,
                has_conf |-> FALSE, confidence |-> 0]
\* {"confidence": c} and {"value": v}
ItemNoValue(c) == [isdict |-> TRUE, has_value |-> FALSE, value |-> <<>>,
                   has_conf |-> TRUE, confidence |-> c]
ItemNoConf(v) == [isdict |-> TRUE, has_value |-> TRUE, value |-> v,
                  has_conf |-> FALSE, confidence |-> 0]

ListOf(items) == [islist |-> TRUE, items |-> items]
NotAList == [islist |-> FALSE, items |-> <<>>]

\* A rational num/den with den > 0, reduced.
RECURSIVE Gcd(_, _)
Gcd(a, b) == IF b = 0 THEN a ELSE Gcd(b, a % b)
Abs(n) == IF n < 0 THEN 0 - n ELSE n
Rat(n, d) ==
    LET g == Gcd(Abs(n), d) IN [num |-> n \div g, den |-> d \div g]
RatLess(a, b) == a.num * b.den < b.num * a.den
RatLeq(a, b) == a.num * b.den <= b.num * a.den

RECURSIVE SumOver(_, _)
SumOver(S, f) ==
    IF S = {} THEN 0
    ELSE LET x == CHOOSE y \in S : TRUE IN f[x] + SumOver(S \ {x}, f)

RECURSIVE ProdOver(_, _)
ProdOver(S, f) ==
    IF S = {} THEN 1
    ELSE LET x == CHOOSE y \in S : TRUE IN f[x] * ProdOver(S \ {x}, f)

RECURSIVE SumSeq(_)
SumSeq(s) == IF s = <<>> THEN 0 ELSE Head(s) + SumSeq(Tail(s))

(***************************************************************************)
(* VibeShoppingAgent._extract_attributes_llm                               *)
(***************************************************************************)
\* attr_item.get("value", "") and attr_item.get("confidence", 0.0)
get_value(attr_item) == IF attr_item.has_value THEN attr_item.value ELSE <<>>
get_confidence(attr_item) ==
    IF attr_item.has_conf THEN attr_item.confidence ELSE 0

\* Faulty variant of skip_item: the threshold the prompt is given (0.5).
skip_item_prompt_threshold(value, confidence) == value = <<>> \/ confidence < 5

\* "if not value or confidence < CONFIDENCE_THRESHOLD: continue"
skip_item(value, confidence) == value = <<>> \/ confidence < CONFIDENCE_THRESHOLD

\* Variant of extract_list that deduplicates: a value already in the list is
\* not appended again.
RECURSIVE extract_list_dedup(_)
extract_list_dedup(attr_list) ==
    IF attr_list = <<>> THEN <<>>
    ELSE LET n == Len(attr_list)
             attr_item == attr_list[n]
             before == extract_list_dedup(SubSeq(attr_list, 1, n - 1))
         IN  IF ~attr_item.isdict THEN before
             ELSE IF skip_item(get_value(attr_item), get_confidence(attr_item))
                  THEN before
             ELSE IF \E i \in 1..Len(before) : before[i].value = get_value(attr_item)
                  THEN before
             ELSE Append(before, Item(get_value(attr_item), get_confidence(attr_item)))

\* The inner loop over attr_list: every dict item that is not skipped is
\* appended, in order, as {"value", "confidence"}.
RECURSIVE extract_list(_)
extract_list(attr_list) ==
    IF attr_list = <<>> THEN <<>>
    ELSE LET n == Len(attr_list)
             attr_item == attr_list[n]
             before == extract_list(SubSeq(attr_list, 1, n - 1))
         IN  IF ~attr_item.isdict THEN before
             ELSE IF skip_item(get_value(attr_item), get_confidence(attr_item))
                  THEN before
             ELSE Append(before, Item(get_value(attr_item), get_confidence(attr_item)))

\* raw is the outcome of chain.invoke: raw.fail stands for any exception in
\* the try block (the call, the JSON parsing, a malformed result); otherwise
\* raw.attributes and raw.follow_up are the two fields of the result.
extract_attributes_llm(raw) ==
    IF raw.fail
    THEN [attrs |-> EmptyDict, follow_up |-> ""]
    ELSE [attrs |-> [key \in {k \in DOMAIN raw.attributes : raw.attributes[k].islist}
                        |-> ListOf(extract_list(raw.attributes[key].items))],
          follow_up |-> raw.follow_up]

(***************************************************************************)
(* EmbeddingBasedMatcher._filter_by_budget                                 *)
(***************************************************************************)
\* "for item in values: if isinstance(item, dict) and 'value' in item:
\*  try: b = float(item['value']); break / except: continue"
RECURSIVE first_float(_)
first_float(values) ==
    IF values = <<>> THEN None
    ELSE LET item == Head(values) IN
         IF item.isdict /\ item.has_value /\ float(item.value).ok
         THEN Some(float(item.value).num)
         ELSE first_float(Tail(values))

\* budget_min / budget_max as _filter_by_budget extracts them.
filter_budget(completion, key) ==
    IF key \in DOMAIN completion
       /\ completion[key].islist /\ completion[key].items # <<>>
    THEN first_float(completion[key].items)
    ELSE None

\* Faulty variant of keeps_min: strict comparison.
keeps_min_strict(price, budget_min) == price > budget_min

\* filtered_products["price"] >= budget_min
keeps_min(price, budget_min) == price >= budget_min

\* filtered_products["price"] <= budget_max
keeps_max(price, budget_max) == price <= budget_max

\* Faulty variant of apply_bounds: an absent bound counts as 0.
apply_bounds_absent_is_zero(products, budget_min, budget_max) ==
    LET lo == IF budget_min.some THEN budget_min.num ELSE 0
        hi == IF budget_max.some THEN budget_max.num ELSE 0
    IN  SelectSeq(products, LAMBDA p : keeps_min(p.price, lo) /\ keeps_max(p.price, hi))

\* Faulty variant of apply_bounds: contradictory bounds are swapped.
apply_bounds_swapping(products, budget_min, budget_max) ==
    LET swap == budget_min.some /\ budget_max.some /\ budget_min.num > budget_max.num
        lo == IF swap THEN budget_max ELSE budget_min
        hi == IF swap THEN budget_min ELSE budget_max
        after_min == IF lo.some
                     THEN SelectSeq(products, LAMBDA p : keeps_min(p.price, lo.num))
                     ELSE products
    IN  IF hi.some
        THEN SelectSeq(after_min, LAMBDA p : keeps_max(p.price, hi.num))
        ELSE after_min

\* "Apply budget filtering": first the lower bound, then the upper bound,
\* each only when it is not None.
apply_bounds(products, budget_min, budget_max) ==
    LET after_min == IF budget_min.some
                     THEN SelectSeq(products, LAMBDA p : keeps_min(p.price, budget_min.num))
                     ELSE products
    IN  IF budget_max.some
        THEN SelectSeq(after_min, LAMBDA p : keeps_max(p.price, budget_max.num))
        ELSE after_min

filter_by_budget(completion, products) ==
    IF "budget_min" \notin DOMAIN completion /\ "budget_max" \notin DOMAIN completion
    THEN products
    ELSE apply_bounds(products,
                      filter_budget(completion, "budget_min"),
                      filter_budget(completion, "budget_max"))

(***************************************************************************)
(* EmbeddingBasedMatcher._extract_completion_data and                      *)
(* _calculate_weighted_confidence                                          *)
(***************************************************************************)
\* Faulty variant of attribute_weight: the table is not consulted and every
\* attribute gets the default weight.
attribute_weight_uniform(attr) == 10

\* self.attribute_weights.get(attr, 1.0), in tenths
attribute_weight(attr) ==
    CASE attr = "occasion" -> 15
      [] attr = "category" -> 13
      [] attr = "fit" -> 12
      [] attr = "color_or_print" -> 11
      [] attr \in {"fabric", "budget_min", "budget_max"} -> 10
      [] attr \in {"sleeve_length", "neckline", "length"} -> 8
      [] OTHER -> 10

\* str(item) of a list element that is no dict with a "value"; f"{value}" of
\* a value that is no list.
StrOfOther == <<"?">>

\* values: the strings joined into "key: v1, v2" for one key
completion_values(value) ==
    IF value.islist
    THEN [i \in 1..Len(value.items) |->
            IF value.items[i].isdict /\ value.items[i].has_value
            THEN value.items[i].value ELSE StrOfOther]
    ELSE <<StrOfOther>>

\* confidences: item.get("confidence", 1.0) of a dict with a value, else 1.0
completion_confidences(value) ==
    IF value.islist
    THEN [i \in 1..Len(value.items) |->
            IF value.items[i].isdict /\ value.items[i].has_value
                 /\ value.items[i].has_conf
            THEN value.items[i].confidence ELSE 10]
    ELSE <<>>

\* confidence_scores[key] = np.mean(confidences) if confidences else 1.0
mean_confidence(confidences) ==
    IF confidences = <<>> THEN Rat(1, 1)
    ELSE Rat(SumSeq(confidences), 10 * Len(confidences))

\* The dict order of the parts of the text is the key order of the
\* extractor's JSON; the text only feeds the embedding, so the model keeps
\* the parts per key.
extract_completion_data(completion) ==
    [text |-> [key \in DOMAIN completion |-> completion_values(completion[key])],
     confidence_scores |->
        [key \in DOMAIN completion |->
            mean_confidence(completion_confidences(completion[key]))]]

calculate_weighted_confidence(confidence_scores) ==
    IF DOMAIN confidence_scores = {} THEN Rat(1, 1)
    ELSE LET keys == DOMAIN confidence_scores
             D == ProdOver(keys, [k \in keys |-> confidence_scores[k].den])
             \* weighted_sum * D * 10 and total_weight * 10
             weighted_sum == SumOver(keys,
                 [k \in keys |-> confidence_scores[k].num
                                  * (D \div confidence_scores[k].den)
                                  * attribute_weight(k)])
             total_weight == SumOver(keys, [k \in keys |-> attribute_weight(k)])
         IN  IF total_weight > 0 THEN Rat(weighted_sum, D * total_weight)
             ELSE Rat(1, 1)

(***************************************************************************)
(* EmbeddingBasedMatcher.match                                             *)
(***************************************************************************)
\* Faulty variant of insert_by_score: r goes in front of the results with
\* the same score, so equal scores come out in reverse catalog order.
RECURSIVE insert_by_score_reversing_ties(_, _)
insert_by_score_reversing_ties(sorted, r) ==
    IF sorted = <<>> THEN <<r>>
    ELSE IF RatLess(r.match_score, Head(sorted).match_score)
         THEN <<Head(sorted)>> \o insert_by_score_reversing_ties(Tail(sorted), r)
         ELSE <<r>> \o sorted

\* Stable insertion of r behind every result whose score is not smaller:
\* sorted(results, key=match_score, reverse=True) keeps the original order
\* of results with equal scores.
RECURSIVE insert_by_score(_, _)
insert_by_score(sorted, r) ==
    IF sorted = <<>> THEN <<r>>
    ELSE IF RatLeq(r.match_score, Head(sorted).match_score)
         THEN <<Head(sorted)>> \o insert_by_score(Tail(sorted), r)
         ELSE <<r>> \o sorted

RECURSIVE sorted_by_score(_)
sorted_by_score(results) ==
    IF results = <<>> THEN <<>>
    ELSE insert_by_score(sorted_by_score(SubSeq(results, 1, Len(results) - 1)),
                         results[Len(results)])

\* One RecommendationResult. matched_attributes, reasoning and
\* confidence_breakdown are derived from confidence_scores and only feed the
\* justifier's prompt; the model keeps the fields the controller reads.
recommendation_result(product, base_similarity, avg_confidence) ==
    [product_id |-> product.id,
     product_name |-> product.name,
     match_score |-> Rat(base_similarity * avg_confidence.num, 10 * avg_confidence.den),
     product_details |-> product]

\* sims is what the embedding model gives for this call: sims.raises stands
\* for an exception of encode / cosine_similarity, sims.similarity[id] is the
\* cosine similarity of the completion text and the product's text.
match_results(data, avg_confidence, filtered_products, sims) ==
    [text |-> data.text,
     confidence_scores |-> data.confidence_scores,
     avg_confidence |-> avg_confidence,
     filtered_products |-> filtered_products,
     raised |-> filtered_products # <<>> /\ sims.raises,
     results |->
        IF filtered_products = <<>> \/ sims.raises THEN <<>>
        ELSE sorted_by_score(
                [i \in 1..Len(filtered_products) |->
                    recommendation_result(filtered_products[i],
                        sims.similarity[filtered_products[i].id],
                        avg_confidence)])]

match_with(data, filtered_products, sims) ==
    match_results(data, calculate_weighted_confidence(data.confidence_scores),
                  filtered_products, sims)

match(completion, products, sims) ==
    match_with(extract_completion_data(completion),
               filter_by_budget(completion, products), sims)

(***************************************************************************)
(* OutfitRecommendationAgent.find_recommendations                          *)
(***************************************************************************)
\* Faulty variant of resolved_budget: a budget attribute that holds
\* candidates counts as a bound even when none of them is a number.
resolved_budget_if_present(completion, key) ==
    IF key \in DOMAIN completion
       /\ completion[key].islist /\ completion[key].items # <<>>
    THEN Some(first_float(completion[key].items).num)
    ELSE None

\* budget_min / budget_max as find_recommendations extracts them again when
\* match returned nothing.
resolved_budget(completion, key) ==
    IF key \in DOMAIN completion
       /\ completion[key].islist /\ completion[key].items # <<>>
    THEN first_float(completion[key].items)
    ELSE None

\* The texts of the ValueErrors, as records. range is the budget_str form.
NoMessage ==
    [t |-> "", range |-> "", budget_min |-> None, budget_max |-> None]
\* "I couldn't find any products within your budget range {budget_str}. ..."
budget_message(budget_min, budget_max) ==
    [t |-> "no_products_within_budget",
     range |-> IF budget_min.some /\ budget_max.some THEN "between"
               ELSE IF budget_max.some THEN "under" ELSE "over",
     budget_min |-> budget_min,
     budget_max |-> budget_max]
\* "I couldn't find exact matches for your vibe. Please start a new conversation."
no_exact_matches_message ==
    [t |-> "no_exact_matches", range |-> "", budget_min |-> None, budget_max |-> None]

\* Faulty variant of above_min_score: a score equal to min_score is kept.
above_min_score_or_equal(match_score, min_score) ==
    ~RatLess(match_score, Rat(min_score, 10))

\* match.match_score > min_score
above_min_score(match_score, min_score) ==
    RatLess(Rat(min_score, 10), match_score)

\* results = [match for match in results if match.match_score > min_score]
\* and, when something is left, results[:max_results]
thresholded(kept, m, completion, min_score, max_results) ==
    [invoked |-> TRUE, completion |-> completion,
     text |-> m.text, confidence_scores |-> m.confidence_scores,
     avg_confidence |-> m.avg_confidence,
     filtered_products |-> m.filtered_products,
     matched |-> m.results,
     min_score |-> min_score, max_results |-> max_results,
     raised |-> IF kept = <<>> THEN "ValueError" ELSE "",
     message |-> IF kept = <<>> THEN no_exact_matches_message ELSE NoMessage,
     results |-> SubSeq(kept, 1, IF Len(kept) < max_results
                                 THEN Len(kept) ELSE max_results)]

\* "if not results:" after match: the budget is resolved again and decides
\* which ValueError is raised.
nothing_matched(m, budget_min, budget_max, completion, min_score, max_results) ==
    [invoked |-> TRUE, completion |-> completion,
     text |-> m.text, confidence_scores |-> m.confidence_scores,
     avg_confidence |-> m.avg_confidence,
     filtered_products |-> m.filtered_products,
     matched |-> m.results,
     min_score |-> min_score, max_results |-> max_results,
     raised |-> IF m.raised THEN "Exception" ELSE "ValueError",
     message |-> IF m.raised THEN NoMessage
                 ELSE IF budget_min.some \/ budget_max.some
                      THEN budget_message(budget_min, budget_max)
                      ELSE no_exact_matches_message,
     results |-> <<>>]

\* raised is "" (returns results), "ValueError" (message is its text) or
\* "Exception" (any other exception, from match).
find_recommendations_of(m, completion, min_score, max_results) ==
    IF m.raised \/ m.results = <<>>
    THEN nothing_matched(m, resolved_budget(completion, "budget_min"),
                         resolved_budget(completion, "budget_max"),
                         completion, min_score, max_results)
    ELSE thresholded(
             SelectSeq(m.results, LAMBDA r : above_min_score(r.match_score, min_score)),
             m, completion, min_score, max_results)

find_recommendations(completion, products, sims, min_score, max_results) ==
    find_recommendations_of(match(completion, products, sims),
                            completion, min_score, max_results)

\* No call of find_recommendations in the last operation.
NoCall ==
    [invoked |-> FALSE, completion |-> EmptyDict, text |-> EmptyDict,
     confidence_scores |-> EmptyDict, avg_confidence |-> Rat(1, 1),
     filtered_products |-> <<>>, matched |-> <<>>,
     min_score |-> 0, max_results |-> 0,
     raised |-> "", message |-> NoMessage, results |-> <<>>]

(***************************************************************************)
(* VibeShoppingAgent: message contents                                     *)
(***************************************************************************)
\* The content of a message, as a record: t names the text, the other
\* fields are what is interpolated into it.
Content(t) ==
    [t |-> t, user_input |-> "", follow_up |-> "", range |-> "",
     budget_min |-> None, budget_max |-> None, picks |-> <<>>]

user_content(user_input) == [Content("user") EXCEPT !.user_input = user_input]

\* "Great! I found some lovely options for '{user_input}'. To help me find
\*  the perfect pieces for you, {follow_up}"
follow_up_content(user_input, follow_up) ==
    [Content("follow_up") EXCEPT !.user_input = user_input, !.follow_up = follow_up]

\* str(e) of a ValueError of find_recommendations
str_of_error(message) ==
    [Content(message.t) EXCEPT !.range = message.range,
                               !.budget_min = message.budget_min,
                               !.budget_max = message.budget_max]

\* "I couldn't find any matches for your preferences. ..."
no_matches_content == Content("no_matches")
\* "I encountered an error finding recommendations. Please try again."
error_content == Content("error")
\* "Here are my top picks for you:" and one entry per justified product
picks_content(products_with_justifications) ==
    [Content("top_picks") EXCEPT !.picks = products_with_justifications]

RecommendationReplies ==
    {"top_picks", "no_matches", "error", "no_products_within_budget", "no_exact_matches"}

(***************************************************************************)
(* VibeShoppingAgent._generate_justification_llm                           *)
(***************************************************************************)
\* f"{match.match_score:.2f}": the score in hundredths, rounded to nearest
\* (ties to even).
score_2f(match_score) ==
    LET n == 100 * match_score.num
        q == n \div match_score.den
        r == n % match_score.den
    IN  IF 2 * r > match_score.den THEN q + 1
        ELSE IF 2 * r < match_score.den THEN q
        ELSE IF q % 2 = 0 THEN q ELSE q + 1

\* The fallback entry of one match.
fallback_justification(m) ==
    [name |-> m.product_name, price |-> m.product_details.price,
     justification |-> [by |-> "template",
                        category |-> m.product_details.category,
                        score |-> score_2f(m.match_score)]]

\* ProductWithJustification(**entry) of a valid entry of the LLM's answer.
llm_justification(entry) ==
    [name |-> entry.name, price |-> entry.price,
     justification |-> [by |-> "llm", category |-> "", score |-> 0]]

\* Index of the first entry that pydantic rejects, or 0.
first_invalid(entries) ==
    IF \E i \in 1..Len(entries) : ~entries[i].valid
    THEN CHOOSE i \in 1..Len(entries) :
            ~entries[i].valid /\ \A j \in 1..(i - 1) : entries[j].valid
    ELSE 0

\* jresp is the outcome of the justifier call: jresp.fail stands for an
\* exception of the call or of the parsing; otherwise jresp.products is
\* response.get("products", []). The except branch appends one fallback per
\* match to whatever results already holds.
generate_justification_llm(matches, jresp) ==
    LET fallbacks == [i \in 1..Len(matches) |-> fallback_justification(matches[i])]
    IN  IF jresp.fail THEN fallbacks
        ELSE LET k == first_invalid(jresp.products) IN
             IF k = 0
             THEN [i \in 1..Len(jresp.products) |-> llm_justification(jresp.products[i])]
             ELSE [i \in 1..(k - 1) |-> llm_justification(jresp.products[i])] \o fallbacks

(***************************************************************************)
(* VibeShoppingAgent._generate_recommendations                             *)
(***************************************************************************)
\* matches[:3]
top_matches(matches) ==
    SubSeq(matches, 1, IF Len(matches) < top_k THEN Len(matches) ELSE top_k)

\* The content that stands for an exception leaving _generate_recommendations
\* instead of a returned text.
uncaught_content == Content("uncaught")

\* Faulty variant of generate_recommendations: only ValueError is caught, any
\* other exception of find_recommendations leaves the method.
generate_recommendations_value_errors_only(out, jresp) ==
    IF out.raised = "ValueError" THEN str_of_error(out.message)
    ELSE IF out.raised = "Exception" THEN uncaught_content
    ELSE IF out.results = <<>> THEN no_matches_content
    ELSE picks_content(generate_justification_llm(top_matches(out.results), jresp))

\* Faulty variant of generate_recommendations: a ValueError gets the generic
\* error text instead of its own.
generate_recommendations_generic(out, jresp) ==
    IF out.raised # "" THEN error_content
    ELSE IF out.results = <<>> THEN no_matches_content
    ELSE picks_content(generate_justification_llm(top_matches(out.results), jresp))

\* out is what find_recommendations(self.attributes) did.
generate_recommendations(out, jresp) ==
    IF out.raised = "ValueError" THEN str_of_error(out.message)
    ELSE IF out.raised = "Exception" THEN error_content
    ELSE IF out.results = <<>> THEN no_matches_content
    ELSE picks_content(generate_justification_llm(top_matches(out.results), jresp))

(***************************************************************************)
(* Inputs of the model: catalogs, extractor outputs, similarities,         *)
(* justifier answers.                                                      *)
(***************************************************************************)
Product(id, name, price, category) ==
    [id |-> id, name |-> name, price |-> price, category |-> category]

P1 == Product("p1", "Linen Top", 40, "top")
P2 == Product("p2", "Silk Dress", 80, "dress")
P3 == Product("p3", "Cotton Tee", 50, "top")
P4 == Product("p4", "Velvet Gown", 100, "dress")

CatalogFour == <<P1, P2, P3, P4>>
CatalogOne == <<P2>>
Catalogs == {<<>>, CatalogOne, CatalogFour}

Str_top == <<"t", "o", "p">>
Str_dress == <<"d", "r", "e", "s", "s">>
Str_flowy == <<"F", "l", "o", "w", "y">>
Str_relaxed == <<"R", "e", "l", "a", "x", "e", "d">>
Str_30_blanks == <<" ", "3", "0", " ">>
Str_40 == <<"4", "0">>
Str_50 == <<"5", "0">>
Str_80 == <<"8", "0">>
Str_100 == <<"1", "0", "0">>
Str_x == <<"x">>
Str_dollar_200 == <<"$", "2", "0", "0">>
Str_minus_5 == <<"-", "5">>

Raw(attrs, follow_up) == [fail |-> FALSE, attributes |-> attrs, follow_up |-> follow_up]
\* No extractor call yet.
NoExtract == [fail |-> FALSE, attributes |-> EmptyDict, follow_up |-> "none"]
ExtractFailed == [fail |-> TRUE, attributes |-> EmptyDict, follow_up |-> ""]

Question == "Any must-haves?"

\* What the extractor may return in a turn.
ExtractorOutputs ==
    { ExtractFailed,
      \* a budget of at most 50, with and without a follow-up question
      Raw([category |-> ListOf(<<Item(Str_top, 9)>>),
           budget_max |-> ListOf(<<Item(Str_50, 9)>>)], Question),
      Raw([category |-> ListOf(<<Item(Str_top, 9)>>),
           budget_max |-> ListOf(<<Item(Str_50, 9)>>)], ""),
      \* the same value twice, a candidate below the threshold, and a
      \* contradictory budget
      Raw([category |-> ListOf(<<Item(Str_top, 8), Item(Str_top, 9), Item(Str_dress, 6)>>),
           budget_min |-> ListOf(<<Item(Str_100, 9)>>),
           budget_max |-> ListOf(<<Item(Str_50, 9)>>)], ""),
      \* malformed entries, a non-numeric first budget value
      Raw([category |-> NotAList,
           fit |-> ListOf(<<NonDictItem, ItemNoValue(9), ItemNoConf(Str_relaxed),
                            Item(<<>>, 9), Item(Str_flowy, 7)>>),
           budget_min |-> ListOf(<<Item(Str_x, 9), Item(Str_80, 8)>>),
           budget_max |-> ListOf(<<Item(Str_dollar_200, 9)>>)], Question),
      \* nothing above the threshold
      Raw([category |-> ListOf(<<Item(Str_dress, 5)>>),
           budget_max |-> ListOf(<<Item(Str_50, 6)>>)], Question),
      \* a budget below every price
      Raw([budget_max |-> ListOf(<<Item(Str_30_blanks, 9)>>)], "") }

UserInputs == {"something cute for brunch"}

Sims(raises, s1, s2, s3, s4) ==
    [raises |-> raises,
     similarity |-> [id \in {"p1", "p2", "p3", "p4"} |->
        CASE id = "p1" -> s1 [] id = "p2" -> s2 [] id = "p3" -> s3 [] id = "p4" -> s4]]

\* What the embedding model may give in a call (similarities in tenths).
Similarities ==
    { Sims(TRUE, 0, 0, 0, 0),
      Sims(FALSE, 5, 5, 5, 5),
      Sims(FALSE, 2, 9, 4, 4),
      Sims(FALSE, 3, 3, 3, 3) }

JEntry(valid, m) ==
    [valid |-> valid, name |-> m.product_name, price |-> m.product_details.price]
JAnswer(products) == [fail |-> FALSE, products |-> products]

\* What the justifier may answer for these matches: a failure, one entry per
\* match, only the first entry, or a last entry that does not validate.
JustifierResponses(matches) ==
    LET echo == [i \in 1..Len(matches) |-> JEntry(TRUE, matches[i])]
        n == Len(matches)
    IN  { [fail |-> TRUE, products |-> <<>>],
          JAnswer(echo),
          JAnswer(SubSeq(echo, 1, IF n < 1 THEN n ELSE 1)),
          JAnswer([i \in 1..n |-> JEntry(i < n, matches[i])]) }

(***************************************************************************)
(* VibeShoppingAgent: __init__, process_query, reset_conversation          *)
(***************************************************************************)
\* self.conversation = [], self.attributes = {}, self.follow_up_count = 0
Init ==
    /\ conversation = <<>>
    /\ attributes = EmptyDict
    /\ follow_up_count = 0
    /\ catalog \in {CatalogFour, CatalogOne}
    /\ extracted = NoExtract
    /\ found = NoCall
    /\ lastOp = "init"

Message(role, content) == [role |-> role, content |-> content]

\* Faulty variant of ask_follow_up: off by one.
ask_follow_up_off_by_one(follow_up, count) ==
    follow_up # "" /\ count <= max_follow_ups

\* Faulty variant of ask_follow_up: the budget is not consulted.
ask_follow_up_unbounded(follow_up, count) == follow_up # ""

\* "if follow_up and self.follow_up_count < self.max_follow_ups"
ask_follow_up(follow_up, count) ==
    follow_up # "" /\ count < max_follow_ups

\* Faulty variant of commit_attributes: the new attributes are merged into
\* the committed ones (always_merger.merge: the lists of a key are joined).
commit_attributes_merged(old, new) ==
    [key \in DOMAIN old \cup DOMAIN new |->
        IF key \in DOMAIN old /\ key \in DOMAIN new
        THEN ListOf(old[key].items \o new[key].items)
        ELSE IF key \in DOMAIN new THEN new[key] ELSE old[key]]

\* "self.attributes = attributes_new": what the turn commits, given the
\* committed attributes and the extracted ones.
commit_attributes(old, new) == new

\* Faulty variant of follow_up_count_after: every turn is counted.
follow_up_count_after_any_turn(asks, count) == count + 1

\* "self.follow_up_count += 1" in the follow-up branch only
follow_up_count_after(asks, count) == IF asks THEN count + 1 ELSE count

\* "self.conversation.append(AIMessage(content=response))": reached only
\* when the call that computes response returned.
with_reply(history, response) ==
    IF response = uncaught_content THEN history
    ELSE Append(history, Message("assistant", response))

\* The turn once the extractor has returned ext = (attributes_new, follow_up);
\* out is what find_recommendations(self.attributes) does if it is called.
process_extracted(user_input, raw, ext, out, jresp) ==
    /\ attributes' = commit_attributes(attributes, ext.attrs)
    /\ extracted' = raw
    /\ follow_up_count' =
          follow_up_count_after(ask_follow_up(ext.follow_up, follow_up_count),
                                follow_up_count)
    /\ conversation' =
          with_reply(Append(conversation, Message("user", user_content(user_input))),
                     IF ask_follow_up(ext.follow_up, follow_up_count)
                     THEN follow_up_content(user_input, ext.follow_up)
                     ELSE generate_recommendations(out, jresp))
    /\ found' = IF ask_follow_up(ext.follow_up, follow_up_count) THEN NoCall ELSE out
    /\ catalog' = catalog
    /\ lastOp' = "process_query"

process_attributes(user_input, raw, ext, sims, jresp) ==
    process_extracted(user_input, raw, ext,
        find_recommendations(commit_attributes(attributes, ext.attrs), catalog, sims,
                             default_min_score, default_max_results),
        jresp)

process_query(user_input, raw, sims, jresp) ==
    process_attributes(user_input, raw, extract_attributes_llm(raw), sims, jresp)

\* The justifier's answers to choose from: those for the matches the turn
\* would hand to it.
JustifierChoices(raw, sims) ==
    JustifierResponses(top_matches(
        find_recommendations(
            commit_attributes(attributes, extract_attributes_llm(raw).attrs),
            catalog, sims, default_min_score, default_max_results).results))

ProcessQuery ==
    /\ Len(conversation) < 2 * MaxTurns
    /\ \E user_input \in UserInputs, raw \in ExtractorOutputs, sims \in Similarities :
         \E jresp \in JustifierChoices(raw, sims) :
            process_query(user_input, raw, sims, jresp)

\* Faulty variant of reset_conversation: follow_up_count is not cleared.
reset_conversation_keeps_count ==
    /\ conversation' = <<>>
    /\ attributes' = EmptyDict
    /\ lastOp' = "reset_conversation"
    /\ UNCHANGED <<follow_up_count, catalog, extracted, found>>

reset_conversation ==
    /\ conversation' = <<>>
    /\ attributes' = EmptyDict
    /\ follow_up_count' = 0
    /\ lastOp' = "reset_conversation"
    /\ UNCHANGED <<catalog, extracted, found>>

Next == ProcessQuery \/ reset_conversation

Spec == Init /\ [][Next]_vars

(***************************************************************************)
(* The engine on its own: find_recommendations applied to an arbitrary     *)
(* completion dict and catalog.                                            *)
(***************************************************************************)
Absent == [present |-> FALSE, value |-> NotAList]
Present(value) == [present |-> TRUE, value |-> value]

\* What a budget key of the completion may hold.
BudgetChoices ==
    { Absent,
      Present(ListOf(<<>>)),
      Present(NotAList),
      Present(ListOf(<<Item(Str_dollar_200, 9)>>)),
      Present(ListOf(<<Item(Str_40, 9)>>)),
      Present(ListOf(<<Item(Str_x, 9), Item(Str_80, 8)>>)),
      Present(ListOf(<<NonDictItem, ItemNoValue(9), Item(Str_50, 6)>>)),
      Present(ListOf(<<Item(Str_100, 9), Item(Str_40, 7)>>)),
      Present(ListOf(<<Item(Str_minus_5, 9)>>)) }

CategoryChoices ==
    { Absent,
      Present(ListOf(<<Item(Str_top, 9), Item(Str_dress, 6)>>)) }

completion_of(category, budget_min, budget_max) ==
    LET choice == [category |-> category, budget_min |-> budget_min,
                   budget_max |-> budget_max]
    IN  [key \in {k \in DOMAIN choice : choice[k].present} |-> choice[key].value]

Completions ==
    { completion_of(c, lo, hi) :
        c \in CategoryChoices, lo \in BudgetChoices, hi \in BudgetChoices }

MinScores == {default_min_score, 4}
MaxResults == {default_max_results, 2}

InitFind ==
    /\ conversation = <<>>
    /\ attributes \in Completions
    /\ follow_up_count = 0
    /\ catalog \in Catalogs
    /\ extracted = NoExtract
    /\ found = NoCall
    /\ lastOp = "init"

\* self.recommendation_agent.find_recommendations(completion, min_score, max_results)
FindRecommendations ==
    /\ \E sims \in Similarities, min_score \in MinScores, max_results \in MaxResults :
          found' = find_recommendations(attributes, catalog, sims, min_score, max_results)
    /\ lastOp' = "find_recommendations"
    /\ UNCHANGED <<conversation, attributes, follow_up_count, catalog, extracted>>

NextFind == FindRecommendations

SpecFind == InitFind /\ [][NextFind]_vars

(***************************************************************************)
(* The confidence of a completion on its own: _extract_completion_data and *)
(* _calculate_weighted_confidence applied to attribute models over the     *)
(* names of the weight table and one name that is not in it.               *)
(***************************************************************************)
MaxAttributes == 2

AttributeNames ==
    {"occasion", "category", "fit", "color_or_print", "fabric", "budget_min",
     "budget_max", "sleeve_length", "neckline", "length", "season"}

\* The candidates of one attribute: none, one, or several with different
\* confidences.
CandidateLists ==
    { ListOf(<<>>),
      ListOf(<<Item(Str_top, 9)>>),
      ListOf(<<Item(Str_flowy, 7), Item(Str_relaxed, 10)>>),
      ListOf(<<Item(Str_40, 8), Item(Str_50, 8), Item(Str_80, 9)>>) }

ConfidenceModels ==
    UNION { [names -> CandidateLists] :
              names \in {S \in SUBSET AttributeNames : Cardinality(S) <= MaxAttributes} }

InitConfidence ==
    /\ conversation = <<>>
    /\ attributes \in ConfidenceModels
    /\ follow_up_count = 0
    /\ catalog = <<>>
    /\ extracted = NoExtract
    /\ found = NoCall
    /\ lastOp = "init"

\* completion_text, confidence_scores = self._extract_completion_data(completion)
\* avg_confidence = self._calculate_weighted_confidence(confidence_scores)
weigh_confidence(completion, data) ==
    [NoCall EXCEPT !.completion = completion,
                   !.text = data.text,
                   !.confidence_scores = data.confidence_scores,
                   !.avg_confidence =
                       calculate_weighted_confidence(data.confidence_scores)]

WeighConfidence ==
    /\ lastOp = "init"
    /\ found' = weigh_confidence(attributes, extract_completion_data(attributes))
    /\ lastOp' = "calculate_weighted_confidence"
    /\ UNCHANGED <<conversation, attributes, follow_up_count, catalog, extracted>>

NextConfidence == WeighConfidence

SpecConfidence == InitConfidence /\ [][NextConfidence]_vars

(***************************************************************************)
(* Properties of the conversation controller (checked under Spec).         *)
(***************************************************************************)
Reply(i) == conversation[i].content
IsFollowUp(i) ==
    conversation[i].role = "assistant" /\ Reply(i).t = "follow_up"
IsRecommendation(i) ==
    conversation[i].role = "assistant" /\ Reply(i).t \in RecommendationReplies
FollowUpsBefore(j) == Cardinality({i \in 1..(j - 1) : IsFollowUp(i)})
\* A step that processes one user turn.
TurnStep == Len(conversation') = Len(conversation) + 2
\* The extractor of the last turn returned a follow-up question.
ExtractorAsked == ~extracted.fail /\ extracted.follow_up = Question

\* C1: in every reachable state follow_up_count is between 0 and
\* max_follow_ups, whatever the extractor returned.
C1_FollowUpCountInRange ==
    follow_up_count \in 0..max_follow_ups

\* A turn processed with the budget spent, in which the extractor asked again.
C1_Witness ==
    /\ lastOp = "process_query"
    /\ follow_up_count = max_follow_ups
    /\ ExtractorAsked
    /\ found.invoked

\* C2: a turn processed with follow_up_count = max_follow_ups invokes the
\* recommendation engine and emits no follow-up, whatever the extractor
\* returns; and a conversation of max_follow_ups + 1 turns holds a
\* recommending reply among its first max_follow_ups + 1 replies.
C2_RecommendsWhenBudgetSpent ==
    /\ [][(follow_up_count = max_follow_ups /\ TurnStep)
            => /\ found'.invoked
               /\ conversation'[Len(conversation')].content.t \in RecommendationReplies
               /\ follow_up_count' = follow_up_count]_vars
    /\ [](Len(conversation) >= 2 * (max_follow_ups + 1)
            => \E i \in 1..(2 * (max_follow_ups + 1)) : IsRecommendation(i))

\* Three turns in which the extractor asked every time: two follow-ups, then
\* a recommending turn.
C2_Witness ==
    /\ Len(conversation) = 2 * (max_follow_ups + 1)
    /\ \A i \in 1..max_follow_ups : IsFollowUp(2 * i)
    /\ IsRecommendation(2 * (max_follow_ups + 1))
    /\ ExtractorAsked
    /\ lastOp = "process_query"

\* C3 (as claimed): once a turn has invoked the recommendation engine, no
\* later turn of the same conversation emits a follow-up question.
C3_RecommendingIsTerminal ==
    \A i, j \in 1..Len(conversation) :
        (i < j /\ IsRecommendation(i)) => ~IsFollowUp(j)

\* C3 (amended): a follow-up question is emitted only while fewer than
\* max_follow_ups follow-ups have been asked since the conversation started
\* or was reset, also after a recommending turn; recommending is terminal
\* only once the budget is spent.
C3_FollowUpOnlyWithinBudget ==
    \A j \in 1..Len(conversation) :
        IsFollowUp(j) => FollowUpsBefore(j) < max_follow_ups

\* A recommending turn followed by follow-ups up to the budget.
C3_Witness ==
    /\ Len(conversation) = 6
    /\ IsRecommendation(2)
    /\ IsFollowUp(4)
    /\ IsFollowUp(6)
    /\ follow_up_count = max_follow_ups

\* C4: a ValueError of find_recommendations (no results, or no results in
\* the budget) ends the turn normally: the reply appended after the user
\* message is the error's text, and the history before it, the attributes
\* handed to the engine and follow_up_count are kept.
C4_EngineFailureBecomesReply ==
    [][(TurnStep /\ found'.invoked /\ found'.raised = "ValueError")
        => /\ SubSeq(conversation', 1, Len(conversation)) = conversation
           /\ conversation'[Len(conversation) + 1].role = "user"
           /\ conversation'[Len(conversation) + 2].role = "assistant"
           /\ LET reply == conversation'[Len(conversation) + 2].content IN
              /\ reply.t \in {"no_products_within_budget", "no_exact_matches"}
              /\ reply.t = found'.message.t
              /\ reply.range = found'.message.range
              /\ reply.budget_min = found'.message.budget_min
              /\ reply.budget_max = found'.message.budget_max
           /\ attributes' = found'.completion
           /\ follow_up_count' = follow_up_count
           /\ lastOp' = "process_query"]_vars

\* The engine found nothing within the budget in a later turn of a
\* conversation that had asked a follow-up.
C4_Witness ==
    /\ lastOp = "process_query"
    /\ found.invoked
    /\ found.raised = "ValueError"
    /\ found.message.t = "no_products_within_budget"
    /\ follow_up_count > 0
    /\ Len(conversation) >= 4
    /\ DOMAIN attributes # {}

\* C5: right after reset_conversation the agent is in the state __init__
\* leaves it in: no history, no attributes, follow_up_count = 0.
C5_ResetGivesInitialState ==
    lastOp = "reset_conversation"
        => /\ conversation = <<>>
           /\ attributes = EmptyDict
           /\ follow_up_count = 0

\* A reset right after a turn that asked a follow-up (so the count was not 0
\* and the history was not empty).
C5_Witness ==
    /\ lastOp = "reset_conversation"
    /\ ExtractorAsked
    /\ ~found.invoked

AcceptedByThreshold(item) ==
    /\ item.isdict /\ item.has_value /\ item.value # <<>>
    /\ item.has_conf /\ item.confidence >= CONFIDENCE_THRESHOLD

\* C6: every candidate of the committed attributes has confidence >= 0.7,
\* and so has every candidate of the completion handed to the engine; each
\* per-attribute confidence used for the weighting is >= 0.7, and every value
\* in the query text is the value of an extracted candidate with
\* confidence >= 0.7.
C6_CommittedAboveThreshold ==
    /\ \A k \in DOMAIN attributes : \A i \in 1..Len(attributes[k].items) :
          attributes[k].items[i].confidence >= CONFIDENCE_THRESHOLD
    /\ found.invoked =>
          /\ \A k \in DOMAIN found.completion :
                \A i \in 1..Len(found.completion[k].items) :
                    found.completion[k].items[i].confidence >= CONFIDENCE_THRESHOLD
          /\ \A k \in DOMAIN found.confidence_scores :
                RatLeq(Rat(CONFIDENCE_THRESHOLD, 10), found.confidence_scores[k])
          /\ \A k \in DOMAIN found.text : \A i \in 1..Len(found.text[k]) :
                \E n \in 1..Len(extracted.attributes[k].items) :
                    /\ AcceptedByThreshold(extracted.attributes[k].items[n])
                    /\ extracted.attributes[k].items[n].value = found.text[k][i]

\* The engine was called in a turn whose extractor output held a candidate
\* below the threshold next to an accepted one.
C6_Witness ==
    /\ lastOp = "process_query"
    /\ found.invoked
    /\ \E k \in DOMAIN attributes :
          /\ attributes[k].items # <<>>
          /\ \E n \in 1..Len(extracted.attributes[k].items) :
                LET item == extracted.attributes[k].items[n] IN
                /\ item.isdict /\ item.has_value /\ item.value # <<>>
                /\ item.has_conf /\ item.confidence < CONFIDENCE_THRESHOLD

Occurrences(items, v, P(_)) ==
    Cardinality({i \in 1..Len(items) : P(items[i]) /\ items[i].value = v})

\* C7 (as claimed): no two candidates of one attribute share a value.
C7_NoDuplicateValues ==
    \A k \in DOMAIN attributes : \A i, j \in 1..Len(attributes[k].items) :
        i # j => attributes[k].items[i].value # attributes[k].items[j].value

\* C7 (amended): after a turn, a value occurs in an attribute's committed
\* sequence as many times as the extractor output lists it for that
\* attribute with confidence >= 0.7: nothing is deduplicated.
C7_DuplicatesAreKept ==
    (lastOp = "process_query" /\ ~extracted.fail) =>
        \A k \in DOMAIN attributes : \A n \in 1..Len(extracted.attributes[k].items) :
            LET v == extracted.attributes[k].items[n].value IN
            /\ Occurrences(attributes[k].items, v, LAMBDA item : TRUE)
                 = Occurrences(extracted.attributes[k].items, v, AcceptedByThreshold)
            /\ Len(attributes[k].items)
                 = Cardinality({i \in 1..Len(extracted.attributes[k].items) :
                                  AcceptedByThreshold(extracted.attributes[k].items[i])})

\* The extractor listed a value twice and both candidates are committed.
C7_Witness ==
    /\ lastOp = "process_query"
    /\ \E k \in DOMAIN attributes : \E i, j \in 1..Len(attributes[k].items) :
          i # j /\ attributes[k].items[i].value = attributes[k].items[j].value

(***************************************************************************)
(* Properties of the budget filter and of find_recommendations (checked    *)
(* under SpecFind).                                                        *)
(***************************************************************************)
ParsesAsNumber(item) == item.isdict /\ item.has_value /\ float(item.value).ok

\* The bound an attribute resolves to: its first candidate value that parses
\* as a number, if there is one.
ResolvedBound(completion, key) ==
    IF /\ key \in DOMAIN completion
       /\ completion[key].islist
       /\ \E i \in 1..Len(completion[key].items) : ParsesAsNumber(completion[key].items[i])
    THEN LET items == completion[key].items
             first == CHOOSE i \in 1..Len(items) :
                        /\ ParsesAsNumber(items[i])
                        /\ \A j \in 1..(i - 1) : ~ParsesAsNumber(items[j])
         IN  Some(float(items[first].value).num)
    ELSE None

Lo(completion) == ResolvedBound(completion, "budget_min")
Hi(completion) == ResolvedBound(completion, "budget_max")
WithinBounds(p, lo, hi) ==
    (lo.some => p.price >= lo.num) /\ (hi.some => p.price <= hi.num)
Elements(seq) == {seq[i] : i \in 1..Len(seq)}

\* C8: the products that pass the budget filter, and are scored, are exactly
\* the catalog's products with price >= budget_min (when it resolves) and
\* price <= budget_max (when it resolves), in catalog order; when neither
\* resolves the catalog is returned unchanged.
C8_BudgetFilterExact ==
    found.invoked =>
        /\ found.filtered_products
             = SelectSeq(catalog,
                   LAMBDA p : WithinBounds(p, Lo(found.completion), Hi(found.completion)))
        /\ (~Lo(found.completion).some /\ ~Hi(found.completion).some)
              => found.filtered_products = catalog
        /\ found.raised # "Exception"
              => {r.product_id : r \in Elements(found.matched)}
                   = {p.id : p \in Elements(found.filtered_products)}

\* Both bounds resolve, some products pass (one of them at the lower bound)
\* and some do not.
C8_Witness ==
    /\ found.invoked
    /\ Lo(found.completion).some /\ Hi(found.completion).some
    /\ found.filtered_products # <<>>
    /\ Len(found.filtered_products) < Len(catalog)
    /\ \E p \in Elements(found.filtered_products) : p.price = Lo(found.completion).num
    /\ found.matched # <<>>

\* C9: when both bounds resolve and budget_min > budget_max, nothing passes
\* the filter and find_recommendations raises the budget error naming the
\* bounds as given, whatever the catalog holds.
C9_ContradictoryBudgetFindsNothing ==
    (/\ found.invoked
     /\ Lo(found.completion).some /\ Hi(found.completion).some
     /\ Lo(found.completion).num > Hi(found.completion).num)
        => /\ found.filtered_products = <<>>
           /\ found.results = <<>>
           /\ found.raised = "ValueError"
           /\ found.message.t = "no_products_within_budget"
           /\ found.message.range = "between"
           /\ found.message.budget_min = Lo(found.completion)
           /\ found.message.budget_max = Hi(found.completion)

\* budget_min = 100 and budget_max = 50 against the catalog of four.
C9_Witness ==
    /\ found.invoked
    /\ Lo(found.completion) = Some(100)
    /\ Hi(found.completion) = Some(50)
    /\ catalog = CatalogFour

\* wide is at least as wide as narrow: its lower bound is absent or not
\* higher, its upper bound is absent or not lower.
IsWider(narrow, wide) ==
    /\ ~Lo(wide).some \/ (Lo(narrow).some /\ Lo(wide).num <= Lo(narrow).num)
    /\ ~Hi(wide).some \/ (Hi(narrow).some /\ Hi(wide).num >= Hi(narrow).num)

\* C10: every product kept under a budget range is kept under every wider
\* range.
C10_BudgetFilterMonotonic ==
    found.invoked =>
        \A wide \in Completions :
            IsWider(found.completion, wide)
                => Elements(found.filtered_products)
                     \subseteq Elements(filter_by_budget(wide, catalog))

\* A range with both bounds that keeps some products, and a wider one that
\* keeps more.
C10_Witness ==
    /\ found.invoked
    /\ Lo(found.completion).some /\ Hi(found.completion).some
    /\ found.filtered_products # <<>>
    /\ \E wide \in Completions :
          /\ IsWider(found.completion, wide)
          /\ Len(filter_by_budget(wide, catalog)) > Len(found.filtered_products)

(***************************************************************************)
(* Properties of what find_recommendations raises and returns (checked     *)
(* under SpecFind).                                                        *)
(***************************************************************************)
\* C11: when no product passes the budget filter, find_recommendations
\* raises a ValueError; it is the budget error, naming the resolved bounds,
\* exactly when budget_min or budget_max resolved to a number, and the
\* generic "no exact matches" error when neither did.
C11_BudgetErrorIffBoundResolved ==
    (found.invoked /\ found.filtered_products = <<>>)
        => /\ found.raised = "ValueError"
           /\ found.results = <<>>
           /\ found.message.t \in {"no_products_within_budget", "no_exact_matches"}
           /\ found.message.t = "no_products_within_budget"
                 <=> (Lo(found.completion).some \/ Hi(found.completion).some)
           /\ found.message.t = "no_products_within_budget"
                 => /\ found.message.budget_min = Lo(found.completion)
                    /\ found.message.budget_max = Hi(found.completion)
                    /\ found.message.range
                         = IF Lo(found.completion).some /\ Hi(found.completion).some
                           THEN "between"
                           ELSE IF Hi(found.completion).some THEN "under" ELSE "over"

\* An empty catalog and budget candidates of which none is a number: nothing
\* passes the filter and no bound resolved.
C11_Witness ==
    /\ found.invoked
    /\ found.filtered_products = <<>>
    /\ "budget_max" \in DOMAIN found.completion
    /\ found.completion["budget_max"].islist
    /\ found.completion["budget_max"].items # <<>>
    /\ ~Lo(found.completion).some /\ ~Hi(found.completion).some
    /\ found.message.t = "no_exact_matches"

\* The score match gave the product: the match_score of its result.
ScoreOf(p) ==
    (CHOOSE r \in Elements(found.matched) : r.product_id = p.id).match_score

\* The positions, in the budget-filtered catalog, of the products whose
\* score is above min_score.
AboveThreshold ==
    {i \in 1..Len(found.filtered_products) :
        RatLess(Rat(found.min_score, 10), ScoreOf(found.filtered_products[i]))}

\* j comes before i: its score is higher, or equal with j earlier in the
\* catalog.
RanksBefore(j, i) ==
    \/ RatLess(ScoreOf(found.filtered_products[i]), ScoreOf(found.filtered_products[j]))
    \/ /\ ~RatLess(ScoreOf(found.filtered_products[j]), ScoreOf(found.filtered_products[i]))
       /\ j < i

RankOf(i) == Cardinality({j \in AboveThreshold : RanksBefore(j, i)}) + 1

\* C12: the list find_recommendations returns is the first max_results of
\* the budget-filtered products scoring above min_score, by score descending
\* and, for equal scores, in catalog order: the product of rank k is the
\* k-th result. The list is thereby a function of the scores and the input.
C12_ResultsAreRankedPrefix ==
    (found.invoked /\ found.raised = "")
        => /\ Len(found.results)
                = IF Cardinality(AboveThreshold) < found.max_results
                  THEN Cardinality(AboveThreshold) ELSE found.max_results
           /\ \A i \in AboveThreshold :
                 RankOf(i) <= found.max_results
                    => /\ found.results[RankOf(i)].product_id
                            = found.filtered_products[i].id
                       /\ found.results[RankOf(i)].match_score
                            = ScoreOf(found.filtered_products[i])

\* Two products with equal scores are returned and max_results cuts off
\* further products that score above min_score.
C12_Witness ==
    /\ found.invoked /\ found.raised = ""
    /\ Len(found.results) = found.max_results
    /\ Cardinality(AboveThreshold) > found.max_results
    /\ \E i, j \in 1..Len(found.results) :
          i < j /\ found.results[i].match_score = found.results[j].match_score

\* C13: every returned result scores strictly above min_score, a product
\* scoring exactly min_score is not returned, and when products passed the
\* budget filter but none scores above min_score, find_recommendations
\* raises the generic "no exact matches" error, also when a bound resolved.
C13_StrictlyAboveMinScore ==
    found.invoked =>
        /\ \A i \in 1..Len(found.results) :
              RatLess(Rat(found.min_score, 10), found.results[i].match_score)
        /\ \A i \in 1..Len(found.matched) :
              found.matched[i].match_score = Rat(found.min_score, 10)
                 => \A j \in 1..Len(found.results) :
                       found.results[j].product_id # found.matched[i].product_id
        /\ (found.matched # <<>> /\ AboveThreshold = {})
              => /\ found.raised = "ValueError"
                 /\ found.results = <<>>
                 /\ found.message = no_exact_matches_message

\* A product scoring exactly min_score is dropped while another one is
\* returned.
C13_Witness ==
    /\ found.invoked /\ found.raised = ""
    /\ found.results # <<>>
    /\ \E i \in 1..Len(found.matched) :
          /\ found.matched[i].match_score = Rat(found.min_score, 10)
          /\ \A j \in 1..Len(found.results) :
                found.results[j].product_id # found.matched[i].product_id

(***************************************************************************)
(* Properties of a turn's outcomes (checked under Spec).                   *)
(***************************************************************************)
\* C14 (as claimed): a turn whose extractor call or parsing fails leaves the
\* committed attribute model and follow_up_count as they were, emits no
\* follow-up, calls the recommendation engine and appends a recommending
\* assistant reply.
C14_ExtractionFailureKeepsModel ==
    [][(TurnStep /\ extracted'.fail)
         => /\ attributes' = attributes
            /\ follow_up_count' = follow_up_count
            /\ found'.invoked
            /\ conversation'[Len(conversation')].role = "assistant"
            /\ conversation'[Len(conversation')].content.t \in RecommendationReplies]_vars

\* C15 (as claimed): when find_recommendations returned n results, the
\* reply lists exactly min(3, n) picks, the i-th pick carrying the name and
\* the price of the i-th ranked match, whatever the justifier answered.
C15_ReplyListsTopMatches ==
    (lastOp = "process_query" /\ found.invoked /\ found.raised = "")
        => LET picks == Reply(Len(conversation)).picks
               n == Len(found.results)
           IN  /\ Reply(Len(conversation)).t = "top_picks"
               /\ Len(picks) = (IF n < 3 THEN n ELSE 3)
               /\ \A i \in 1..Len(picks) :
                     i <= n
                        => /\ picks[i].name = found.results[i].product_name
                           /\ picks[i].price = found.results[i].product_details.price

(***************************************************************************)
(* Properties of the weighted confidence (checked under SpecConfidence).   *)
(***************************************************************************)
\* The importance of an attribute, in tenths, as the claim lists it.
Importance(name) ==
    IF name = "occasion" THEN 15
    ELSE IF name = "category" THEN 13
    ELSE IF name = "fit" THEN 12
    ELSE IF name = "color_or_print" THEN 11
    ELSE IF name \in {"fabric", "budget_min", "budget_max"} THEN 10
    ELSE IF name \in {"sleeve_length", "neckline", "length"} THEN 8
    ELSE 10

Confidences(completion, name) ==
    [i \in 1..Len(completion[name].items) |-> completion[name].items[i].confidence]

RECURSIVE MaxOfSeq(_)
MaxOfSeq(s) ==
    IF Len(s) = 1 THEN s[1]
    ELSE IF Head(s) >= MaxOfSeq(Tail(s)) THEN Head(s) ELSE MaxOfSeq(Tail(s))

\* The number of candidates of an attribute, 1 for an attribute without
\* candidates, whose confidence counts as 1.0.
CountOf(completion, name) ==
    IF completion[name].items = <<>> THEN 1 ELSE Len(completion[name].items)
TotalOf(completion, name) ==
    IF completion[name].items = <<>> THEN 10 ELSE SumSeq(Confidences(completion, name))
HighestOf(completion, name) ==
    IF completion[name].items = <<>> THEN 10 ELSE MaxOfSeq(Confidences(completion, name))

TotalImportance(completion) ==
    SumOver(DOMAIN completion, [name \in DOMAIN completion |-> Importance(name)])

\* C16 (as claimed): the weighted confidence is the importance-weighted mean
\* of the attributes' confidences, an attribute's confidence being the
\* highest confidence among its candidates.
C16_WeightedMeanOfMaxima ==
    lastOp = "calculate_weighted_confidence" =>
        IF DOMAIN found.completion = {} THEN found.avg_confidence = Rat(1, 1)
        ELSE found.avg_confidence.num * 10 * TotalImportance(found.completion)
               = found.avg_confidence.den
                   * SumOver(DOMAIN found.completion,
                        [name \in DOMAIN found.completion |->
                            Importance(name) * HighestOf(found.completion, name)])

\* C16 (amended): the weighted confidence is the importance-weighted mean of
\* the attributes' confidences, an attribute's confidence being the
\* arithmetic mean of its candidates' confidences (1.0 without candidates);
\* it is 1.0 for a model without attributes.
C16_WeightedMeanOfMeans ==
    lastOp = "calculate_weighted_confidence" =>
        IF DOMAIN found.completion = {} THEN found.avg_confidence = Rat(1, 1)
        ELSE LET names == DOMAIN found.completion
                 counts == ProdOver(names,
                              [name \in names |-> CountOf(found.completion, name)])
             IN  found.avg_confidence.num * 10 * counts * TotalImportance(found.completion)
                   = found.avg_confidence.den
                       * SumOver(names,
                            [name \in names |->
                                Importance(name) * TotalOf(found.completion, name)
                                  * (counts \div CountOf(found.completion, name))])

\* Two attributes of different importance, both with several candidates of
\* different confidences: 1.5 * 0.85 for occasion and 0.8 * 0.8333 for
\* length, over 2.3.
C16_Witness ==
    /\ lastOp = "calculate_weighted_confidence"
    /\ DOMAIN found.completion = {"occasion", "length"}
    /\ Len(found.completion["occasion"].items) = 2
    /\ Len(found.completion["length"].items) = 3
    /\ found.avg_confidence = Rat(15 * 17 * 3 + 8 * 25 * 2, 23 * 60)

\* The accepted candidates of one attribute of the extractor output, in the
\* output's order.
AcceptedCandidates(attr_list) ==
    LET accepted == SelectSeq(attr_list.items, AcceptedByThreshold)
    IN  [i \in 1..Len(accepted) |-> Item(accepted[i].value, accepted[i].confidence)]

\* C17: after a turn whose extraction succeeded, the committed attributes
\* are exactly the accepted candidates of that turn's extractor output: the
\* attributes are those the output gives as lists, each with its accepted
\* candidates in order, and nothing of the attributes committed before.
C17_CommittedIsThisTurnsOutput ==
    (lastOp = "process_query" /\ ~extracted.fail)
        => /\ DOMAIN attributes
                = {k \in DOMAIN extracted.attributes : extracted.attributes[k].islist}
           /\ \A k \in DOMAIN attributes :
                 attributes[k] = ListOf(AcceptedCandidates(extracted.attributes[k]))

\* The turn before committed budget_max " 30 " (its reply is the budget
\* error that names 30); this turn's extractor output lists a category and
\* budget_max "50" only, and the candidate " 30 " is gone.
C17_Witness ==
    /\ lastOp = "process_query" /\ ~extracted.fail
    /\ Len(conversation) >= 4
    /\ Reply(Len(conversation) - 2).t = "no_products_within_budget"
    /\ Reply(Len(conversation) - 2).budget_max = Some(30)
    /\ DOMAIN attributes = {"category", "budget_max"}
    /\ attributes["budget_max"] = ListOf(<<Item(Str_50, 9)>>)

\* C18: the history alternates user, assistant and has even length in every
\* reachable state, every assistant entry being a follow-up or a
\* recommending reply; and every call of process_query, whatever the
\* extractor, the engine and the justifier did, appends the user's message
\* followed by exactly one assistant reply.
C18_HistoryAlternates ==
    /\ [](/\ Len(conversation) % 2 = 0
          /\ \A i \in 1..Len(conversation) :
                IF i % 2 = 1
                THEN conversation[i].role = "user" /\ Reply(i).t = "user"
                ELSE conversation[i].role = "assistant"
                     /\ Reply(i).t \in RecommendationReplies \cup {"follow_up"})
    /\ [][lastOp' = "process_query"
            => /\ Len(conversation') = Len(conversation) + 2
               /\ SubSeq(conversation', 1, Len(conversation)) = conversation
               /\ conversation'[Len(conversation) + 1].role = "user"
               /\ conversation'[Len(conversation) + 2].role = "assistant"]_vars

\* Three turns: one in which the embedding model raised, one in which the
\* justifier failed and the picks got the templated text, and one in which
\* the extraction failed.
C18_Witness ==
    /\ lastOp = "process_query"
    /\ Len(conversation) = 2 * MaxTurns
    /\ extracted.fail
    /\ \E i \in 1..Len(conversation) : Reply(i).t = "error"
    /\ \E i \in 1..Len(conversation) :
          /\ Reply(i).t = "top_picks"
          /\ \E n \in 1..Len(Reply(i).picks) :
                Reply(i).picks[n].justification.by = "template"

\* C19: follow_up_count is the number of follow-up replies in the history,
\* which starts empty at creation and at every reset; a turn raises the count
\* by one, and replies with a follow-up, exactly when the extractor returned
\* a non-empty follow-up and follow_up_count was below max_follow_ups, and
\* every other turn leaves the count and replies without a follow-up.
C19_CountsFollowUps ==
    /\ [](follow_up_count = Cardinality({i \in 1..Len(conversation) : IsFollowUp(i)}))
    /\ [][TurnStep
            => IF /\ ~extracted'.fail /\ extracted'.follow_up # ""
                  /\ follow_up_count < max_follow_ups
               THEN /\ follow_up_count' = follow_up_count + 1
                    /\ conversation'[Len(conversation')].content.t = "follow_up"
               ELSE /\ follow_up_count' = follow_up_count
                    /\ conversation'[Len(conversation')].content.t # "follow_up"]_vars

\* One follow-up was counted, then a turn whose extraction failed
\* recommended and left the count at one.
C19_Witness ==
    /\ lastOp = "process_query"
    /\ follow_up_count = 1
    /\ Len(conversation) = 4
    /\ IsFollowUp(2)
    /\ IsRecommendation(4)
    /\ extracted.fail

====
